---------------------------- MODULE Spec2Model ----------------------------
(***************************************************************************)
(* Model of server/src/pipeline.py: the transform -> validate -> embed ->  *)
(* write -> upsert pipeline and the pure helpers it is built from.         *)
(*                                                                         *)
(* A Python string is a sequence of characters.  The characters that form  *)
(* one lexical unit for the HTML parser (a tag, an entity reference) are   *)
(* kept together as one element, so "<b>" and "&nbsp;" are elements of a   *)
(* text beside "x", " ", "\n" and "NBSP" (U+00A0).                         *)
(*                                                                         *)
(* The embedding provider and the vector store are the environment: the   *)
(* remote provider may answer a batch with any number of items up to the   *)
(* batch length, in any order, with vectors of any length.  responses      *)
(* records the answers received, validated the last validation each        *)
(* surviving document passed, and prior the collection before the run.     *)
(***************************************************************************)
EXTENDS Integers, Sequences, FiniteSets, TLC

VARIABLES
    \* run_pipeline: arguments and environment
    raw, limit, skip_embeddings, provider, batch_size, env,
    \* run_pipeline: locals, position, and the outside world
    pc, idx, transformed, validated, embeddings, responses, embedding_dim,
    error, output, collection, prior,
    \* a call of one of the pure helpers and what it returned
    call, result

pvars == <<raw, limit, skip_embeddings, provider, batch_size, env, pc, idx,
           transformed, validated, embeddings, responses, embedding_dim,
           error, output, collection, prior>>
fvars == <<call, result>>
vars == <<pvars, fvars>>

-----------------------------------------------------------------------------
(* Bounds *)

MaxTextLen == 4
MaxItems == 2
MaxDocs == 2
MaxBatch == 2
MaxDim == 2

-----------------------------------------------------------------------------
(* Generic helpers *)

SeqsUpTo(S, n) == UNION {[1..k -> S] : k \in 0..n}

Range(s) == {s[k] : k \in 1..Len(s)}

Min(a, b) == IF a < b THEN a ELSE b

\* s[a:b] of Python, 0-based and half-open, clipped to the sequence
Slice(s, a, b) == SubSeq(s, a + 1, Min(b, Len(s)))

RECURSIVE Join(_, _)
Join(parts, sep) ==
    IF parts = <<>> THEN <<>>
    ELSE IF Len(parts) = 1 THEN parts[1]
    ELSE parts[1] \o sep \o Join(Tail(parts), sep)

\* str.strip(): whitespace characters removed at both ends
Whitespace == {" ", "\n", "NBSP"}
IsBlank(s) == \A k \in 1..Len(s) : s[k] \in Whitespace

-----------------------------------------------------------------------------
(* strip_html and normalize_text *)

TagTokens == {"<b>"}
EntityTokens == {"&nbsp;", "&amp;"}
TextChars == {"x", " ", "\n", "NBSP"} \cup TagTokens \cup EntityTokens

\* "<" in raw_str or "&" in raw_str
HasMarkup(s) == \E k \in 1..Len(s) : s[k] \in TagTokens \cup EntityTokens \cup {"&"}

\* the parser's decoding of an entity reference
Decode(c) ==
    CASE c = "&nbsp;" -> "NBSP"
      [] c = "&amp;"  -> "&"
      [] OTHER        -> c

\* BeautifulSoup stores a text node of ASCII whitespace only as one "\n"
\* (if it held a newline) or one " "
StoreNode(node) ==
    IF \A k \in 1..Len(node) : node[k] \in {" ", "\n"}
    THEN (IF "\n" \in Range(node) THEN <<"\n">> ELSE <<" ">>)
    ELSE node

RECURSIVE TextNodes(_, _, _)
TextNodes(s, nodes, cur) ==
    LET flushed == IF cur = <<>> THEN nodes ELSE Append(nodes, StoreNode(cur))
    IN  IF s = <<>> THEN flushed
        ELSE IF Head(s) \in TagTokens THEN TextNodes(Tail(s), flushed, <<>>)
        ELSE TextNodes(Tail(s), nodes, Append(cur, Decode(Head(s))))

\* BeautifulSoup(raw_str, "html.parser").get_text(separator="\n")
get_text(s) == Join(TextNodes(s, <<>>, <<>>), <<"\n">>)

strip_html(rawtext) ==
    IF rawtext = <<>> THEN <<>>
    ELSE IF ~HasMarkup(rawtext) THEN rawtext
    ELSE get_text(rawtext)

\* text.replace("\xa0", " ")
ReplaceNbsp(s) == [k \in 1..Len(s) |-> IF s[k] = "NBSP" THEN " " ELSE s[k]]

\* position k lies in a run of spaces that touches a newline
RECURSIVE SpacesReach(_, _, _)
SpacesReach(s, k, d) ==
    IF k < 1 \/ k > Len(s) THEN FALSE
    ELSE IF s[k] = "\n" THEN TRUE
    ELSE IF s[k] = " " THEN SpacesReach(s, k + d, d)
    ELSE FALSE

\* re.sub(r"[ \t]*\n[ \t]*", "\n", text)
CleanNewlines(s) ==
    SelectSeq([k \in 1..Len(s) |-> <<s[k], k>>],
              LAMBDA p : ~(p[1] = " " /\ (SpacesReach(s, p[2], 1) \/ SpacesReach(s, p[2], -1))))

Firsts(ps) == [k \in 1..Len(ps) |-> ps[k][1]]

RECURSIVE LStrip(_, _)
LStrip(s, chars) ==
    IF s # <<>> /\ Head(s) \in chars THEN LStrip(Tail(s), chars) ELSE s

RECURSIVE RStrip(_, _)
RStrip(s, chars) ==
    IF s # <<>> /\ s[Len(s)] \in chars THEN RStrip(SubSeq(s, 1, Len(s) - 1), chars) ELSE s

normalize_text(text) ==
    RStrip(LStrip(Firsts(CleanNewlines(strip_html(ReplaceNbsp(text)))), {"\n"}), {"\n"})

-----------------------------------------------------------------------------
(* Python values: None, a str (a sequence of characters), an int, a list;  *)
(* Absent is a key a dict does not have (dict.get returns None for it).    *)

None == [t |-> "none", v |-> <<>>]
Absent == [t |-> "absent", v |-> <<>>]
Str(s) == [t |-> "str", v |-> s]
PyInt(n) == [t |-> "int", v |-> <<n>>]
List(s) == [t |-> "list", v |-> s]

\* d.get(key)
Get(val) == IF val = Absent THEN None ELSE val

\* bool(val)
Truthy(val) ==
    CASE val.t = "str"  -> val.v # <<>>
      [] val.t = "list" -> val.v # <<>>
      [] val.t = "int"  -> val.v # <<0>>
      [] OTHER          -> FALSE

\* a or b
Or(a, b) == IF Truthy(a) THEN a ELSE b

\* isinstance(val, str) and val.strip()
NonBlankStr(val) == val.t = "str" /\ ~IsBlank(val.v)

-----------------------------------------------------------------------------
(* dedupe_preserve, extract_text, collect_names, build_url *)

RECURSIVE DedupeFrom(_, _, _)
DedupeFrom(seq, seen, ordered) ==
    IF seq = <<>> THEN ordered
    ELSE LET item == Head(seq)
         IN  IF item = <<>> THEN DedupeFrom(Tail(seq), seen, ordered)
             ELSE IF item \notin seen
                  THEN DedupeFrom(Tail(seq), seen \cup {item}, Append(ordered, item))
                  ELSE DedupeFrom(Tail(seq), seen, ordered)

\* mutant of dedupe_preserve: empty items are dropped, repeated ones are kept
dedupe_none(seq) == SelectSeq(seq, LAMBDA item : item # <<>>)

dedupe_preserve(seq) == DedupeFrom(seq, {}, <<>>)

extract_text(content_elements) ==
    IF ~Truthy(content_elements) THEN <<>>
    ELSE LET textElems == SelectSeq(content_elements.v, LAMBDA e : e.type = "text")
             segments == [k \in 1..Len(textElems) |-> textElems[k].content]
             normalized == [k \in 1..Len(segments) |-> normalize_text(segments[k])]
             cleaned == SelectSeq(normalized, LAMBDA n : n # <<>>)
         IN  Join(cleaned, <<" ">>)

NameKeys == <<"name", "text", "description", "slug">>

\* the first truthy value among the item's name, text, description, slug
RECURSIVE FirstName(_, _)
FirstName(item, k) ==
    IF k > Len(NameKeys) THEN None
    ELSE IF Truthy(Get(item[NameKeys[k]])) THEN item[NameKeys[k]]
    ELSE FirstName(item, k + 1)

RECURSIVE collect_names(_)
collect_names(items) ==
    IF items = <<>> THEN <<>>
    ELSE LET val == FirstName(Head(items), 1)
         IN  (IF Truthy(val) THEN <<val.v>> ELSE <<>>) \o collect_names(Tail(items))

StartsWithHttp(s) == s # <<>> /\ s[1] \in {"http://", "https://"}

build_url(doc) ==
    LET candidate == Or(Get(doc.canonical_url), Get(doc.website_url))
        website == Or(Get(doc.canonical_website), Get(doc.website))
    IN  IF ~Truthy(candidate) THEN None
        ELSE IF StartsWithHttp(candidate.v) THEN candidate
        ELSE IF Truthy(website)
             THEN Str(<<"https://www.">> \o website.v \o <<".com">> \o candidate.v)
        ELSE candidate

-----------------------------------------------------------------------------
(* extract_metadata, transform_document *)

\* taxonomy.get(key) or []
TaxonomyList(taxonomy, key) ==
    IF Truthy(Get(taxonomy[key])) THEN taxonomy[key].v ELSE <<>>

StripAt(names) == [k \in 1..Len(names) |-> LStrip(names[k], {"@"})]

PromoKeys == <<"basic", "lead_art", "square1x1">>

RECURSIVE Thumb(_, _)
Thumb(promo, k) ==
    IF k > Len(PromoKeys) THEN None
    ELSE IF promo[PromoKeys[k]] # Absent /\ Truthy(Get(promo[PromoKeys[k]]))
         THEN promo[PromoKeys[k]]
    ELSE Thumb(promo, k + 1)

\* metadata[key] = val when val is a non-blank str, else the key stays unset
IfNonBlank(val) == IF NonBlankStr(val) THEN val ELSE Absent

EmptyTaxonomy == [sections |-> Absent, categories |-> Absent, tags |-> Absent]

extract_metadata(doc) ==
    LET taxonomy == IF doc.taxonomy = Absent THEN EmptyTaxonomy ELSE doc.taxonomy
        sections == dedupe_preserve(collect_names(TaxonomyList(taxonomy, "sections")))
        categories == dedupe_preserve(collect_names(TaxonomyList(taxonomy, "categories")))
        tags == dedupe_preserve(StripAt(collect_names(TaxonomyList(taxonomy, "tags"))))
    IN  [title              |-> IfNonBlank(Get(doc.headlines)),
         url                |-> build_url(doc),
         external_id        |-> Get(doc._id),
         publish_date       |-> IfNonBlank(Get(doc.publish_date)),
         datetime           |-> IfNonBlank(Or(Get(doc.display_date), Get(doc.publish_date))),
         first_publish_date |-> IfNonBlank(Get(doc.first_publish_date)),
         website            |-> IfNonBlank(Or(Get(doc.canonical_website), Get(doc.website))),
         sections           |-> sections,
         categories         |-> categories,
         tags               |-> tags,
         thumb              |-> IfNonBlank(Thumb(doc.promo_items, 1))]

transform_document(doc) ==
    [text      |-> Str(extract_text(doc.content_elements)),
     metadata  |-> extract_metadata(doc),
     embedding |-> Absent]

-----------------------------------------------------------------------------
(* validate_output *)

\* Optional[int] = None
NoDim == -1

\* ts_val.replace("Z", "+00:00")
ReplaceZ(s) == [k \in 1..Len(s) |-> IF s[k] = "Z" THEN "+00:00" ELSE s[k]]

\* datetime.fromisoformat accepts date, one separator character, time,
\* an optional fraction and an optional UTC offset
IsoParses(s) ==
    /\ Len(s) \in 3..5
    /\ s[1] = "2024-01-01"
    /\ s[2] \in {"T", " "}
    /\ s[3] = "10:00:00"
    /\ Len(s) = 4 => s[4] \in {".123", "+00:00"}
    /\ Len(s) = 5 => s[4] = ".123" /\ s[5] = "+00:00"

TsKeys == <<"publish_date", "datetime", "first_publish_date">>

TsError(val) ==
    IF Get(val) = None THEN "ok"
    ELSE IF val.t # "str" THEN "timestamp must be string"
    ELSE IF val.v = <<>> \/ val.v[Len(val.v)] # "Z" THEN "timestamp must end with Z"
    ELSE IF ~IsoParses(ReplaceZ(val.v)) THEN "timestamp must match ISO 8601"
    ELSE "ok"

RECURSIVE FirstTsError(_, _)
FirstTsError(md, k) ==
    IF k > Len(TsKeys) THEN "ok"
    ELSE IF TsError(md[TsKeys[k]]) # "ok" THEN TsError(md[TsKeys[k]])
    ELSE FirstTsError(md, k + 1)

\* embedding_dim and "embedding" in doc, and then
\* not isinstance(emb, list) or len(emb) != embedding_dim
EmbeddingError(doc, dim) ==
    IF dim # NoDim /\ dim # 0 /\ doc.embedding # Absent
       /\ (doc.embedding.t # "list" \/ Len(doc.embedding.v) # dim)
    THEN "Embedding dimension mismatch"
    ELSE "ok"

\* "ok" when validate_output returns, else the message of the ValueError
validate_output(doc, dim) ==
    IF ~(doc.text.t = "str" /\ ~IsBlank(doc.text.v)) THEN "Invalid text field"
    ELSE IF ~Truthy(Get(doc.metadata.external_id)) THEN "Missing required metadata.external_id"
    ELSE IF ~Truthy(Get(doc.metadata.url)) THEN "Missing required metadata.url"
    ELSE IF FirstTsError(doc.metadata, 1) # "ok" THEN FirstTsError(doc.metadata, 1)
    ELSE EmbeddingError(doc, dim)

-----------------------------------------------------------------------------
(* Raw documents *)

TextElem(content) == [type |-> "text", content |-> content]
ImageElem == [type |-> "image", content |-> <<>>]

AbsUrl == Str(<<"https://", "ex.org", "/a/b">>)
RelUrl == Str(<<"/a/b">>)
TsGood == Str(<<"2024-01-01", "T", "10:00:00", "Z">>)
TsFrac == Str(<<"2024-01-01", "T", "10:00:00", ".123", "Z">>)
TsNoZ == Str(<<"2024-01-01", " ", "10:00:00">>)
TsJunkZ == Str(<<"junk", "Z">>)

NoPromo == [basic |-> Absent, lead_art |-> Absent, square1x1 |-> Absent]

\* a document with every field the pipeline needs
DocGood ==
    [content_elements   |-> List(<<TextElem(<<"x", "<b>", "x">>), ImageElem, TextElem(<<"x", "NBSP">>)>>),
     taxonomy           |-> [sections   |-> List(<<[name |-> Str(<<"a">>), text |-> Absent,
                                                     description |-> Absent, slug |-> Absent]>>),
                             categories |-> Absent,
                             tags       |-> Absent],
     promo_items        |-> [basic |-> Str(<<" ">>), lead_art |-> AbsUrl, square1x1 |-> Absent],
     headlines          |-> Str(<<"x">>),
     canonical_url      |-> AbsUrl,
     website_url        |-> Absent,
     canonical_website  |-> Absent,
     website            |-> Absent,
     _id                |-> Str(<<"id1">>),
     publish_date       |-> TsGood,
     display_date       |-> Absent,
     first_publish_date |-> TsFrac]

\* a relative URL completed from the website, no timestamps
DocRel ==
    [DocGood EXCEPT !.content_elements = List(<<TextElem(<<"x", " ", "\n", "x">>)>>),
                    !.taxonomy = Absent, !.promo_items = NoPromo, !.headlines = Absent,
                    !.canonical_url = None, !.website_url = RelUrl,
                    !.website = Str(<<"example">>), !._id = Str(<<"id2">>),
                    !.publish_date = Absent, !.first_publish_date = Str(<<" ">>)]

DocNoId == [DocGood EXCEPT !._id = Absent]
DocBadTs == [DocGood EXCEPT !._id = Str(<<"id3">>), !.display_date = TsNoZ]
DocNoText == [DocRel EXCEPT !._id = Str(<<"id4">>),
                            !.content_elements = List(<<ImageElem, TextElem(<<"<b>", " ">>)>>)]

RawDocs == {DocGood, DocRel, DocNoId, DocBadTs, DocNoText}

-----------------------------------------------------------------------------
(* The pipeline at rest, for the specifications of the pure helpers *)

NoCollection == [exists |-> FALSE, size |-> 0, points |-> {}]
NoOutput == [written |-> FALSE, docs |-> <<>>]

PipelineIdle ==
    /\ raw = <<>> /\ limit = 0 /\ skip_embeddings = TRUE /\ provider = "openai"
    /\ batch_size = 1
    /\ env = [OPENAI_API_KEY |-> FALSE, QDRANT_URL |-> FALSE, QDRANT_API_KEY |-> FALSE]
    /\ pc = "idle" /\ idx = 0 /\ transformed = <<>> /\ validated = <<>>
    /\ embeddings = <<>> /\ responses = <<>>
    /\ embedding_dim = NoDim /\ error = "" /\ output = NoOutput
    /\ collection = NoCollection /\ prior = NoCollection

-----------------------------------------------------------------------------
(* normalize_text applied to a text, and again to what it returned *)

InitNormalize ==
    /\ PipelineIdle
    /\ call \in {[fn |-> "normalize_text", text |-> t] : t \in SeqsUpTo(TextChars, MaxTextLen)}
    /\ result = <<>>

NormalizeText ==
    /\ call.fn = "normalize_text"
    /\ Len(result) < 2
    /\ result' = Append(result, normalize_text(IF result = <<>> THEN call.text
                                               ELSE result[Len(result)]))
    /\ UNCHANGED <<call, pvars>>

NextNormalize == NormalizeText

SpecNormalize == InitNormalize /\ [][NextNormalize]_vars

\* C9: normalize_text is idempotent: normalizing what normalize_text returned
\* returns it unchanged.
NormalizeIdempotent ==
    (call.fn = "normalize_text" /\ Len(result) = 2) => result[2] = result[1]

-----------------------------------------------------------------------------
(* validate_output called on a document and an embedding dimension *)

Vectors == SeqsUpTo({1, 2}, MaxDim)

ValidateDocs ==
    LET base == transform_document(DocGood)
    IN  {[text      |-> tx,
          metadata  |-> [base.metadata EXCEPT !.external_id = e, !.url = u,
                                              !.publish_date = p, !.datetime = d],
          embedding |-> emb] :
            tx \in {Str(<<"x">>), Str(<<" ">>), None},
            e \in {Str(<<"id1">>), Str(<<>>), Absent},
            u \in {AbsUrl, None},
            p \in {Absent, TsGood, TsFrac, TsNoZ, TsJunkZ, PyInt(5)},
            d \in {Absent, TsNoZ},
            emb \in {Absent, None} \cup {List(v) : v \in Vectors}}

InitValidate ==
    /\ PipelineIdle
    /\ call \in {[fn |-> "validate_output", doc |-> d, embedding_dim |-> dim] :
                    d \in ValidateDocs, dim \in {NoDim} \cup 0..MaxDim}
    /\ result = <<>>

ValidateOutput ==
    /\ call.fn = "validate_output"
    /\ result = <<>>
    /\ result' = <<validate_output(call.doc, call.embedding_dim)>>
    /\ UNCHANGED <<call, pvars>>

NextValidate == ValidateOutput

SpecValidate == InitValidate /\ [][NextValidate]_vars

\* C8: for a document that otherwise passes validation and a supplied
\* embedding dimension, validate_output fails exactly when the document's
\* embedding is not a list or its length differs from the dimension.
ValidateRejectsBadEmbedding ==
    (/\ call.fn = "validate_output" /\ result # <<>>
     /\ call.embedding_dim # NoDim
     /\ validate_output(call.doc, NoDim) = "ok")
    => ((result[1] # "ok") <=>
        (call.doc.embedding.t # "list" \/ Len(call.doc.embedding.v) # call.embedding_dim))

-----------------------------------------------------------------------------
(* extract_metadata called on a document with one taxonomy list *)

NameVals == {Absent, Str(<<>>), Str(<<"a">>), Str(<<"@", "a">>), Str(<<" ">>)}

Fallbacks ==
    {[text |-> Absent, description |-> Absent, slug |-> Absent],
     [text |-> Str(<<"b">>), description |-> Absent, slug |-> Absent],
     [text |-> None, description |-> Str(<<"b">>), slug |-> Str(<<"a">>)],
     [text |-> Absent, description |-> Absent, slug |-> Str(<<"@", "@", "b">>)]}

TaxonomyItems ==
    {[name |-> n, text |-> f.text, description |-> f.description, slug |-> f.slug] :
        n \in NameVals, f \in Fallbacks}

TaxonomyKeys == {"sections", "categories", "tags"}

MetadataDocs ==
    {[DocGood EXCEPT !.taxonomy = [EmptyTaxonomy EXCEPT ![key] = List(items)]] :
        key \in TaxonomyKeys, items \in SeqsUpTo(TaxonomyItems, MaxItems)}
    \cup {[DocGood EXCEPT !.taxonomy = Absent]}

InitMetadata ==
    /\ PipelineIdle
    /\ call \in {[fn |-> "extract_metadata", doc |-> d] : d \in MetadataDocs}
    /\ result = <<>>

ExtractMetadata ==
    /\ call.fn = "extract_metadata"
    /\ result = <<>>
    /\ result' = <<extract_metadata(call.doc)>>
    /\ UNCHANGED <<call, pvars>>

NextMetadata == ExtractMetadata

SpecMetadata == InitMetadata /\ [][NextMetadata]_vars

\* The display label of a taxonomy item: its first non-empty value among
\* name, text, description, slug; the empty string when it has none.
DisplayLabel(item) ==
    LET present == {k \in 1..Len(NameKeys) :
                        item[NameKeys[k]].t = "str" /\ item[NameKeys[k]].v # <<>>}
    IN  IF present = {} THEN <<>>
        ELSE item[NameKeys[CHOOSE k \in present : \A j \in present : k <= j]].v

\* The labels of the call's taxonomy list `key`, tags without their leading "@"
LabelsOf(key) ==
    LET tax == call.doc.taxonomy
        items == IF tax = Absent \/ tax[key].t # "list" THEN <<>> ELSE tax[key].v
    IN  [k \in 1..Len(items) |->
            IF key = "tags" THEN LStrip(DisplayLabel(items[k]), {"@"})
            ELSE DisplayLabel(items[k])]

FirstIndex(labels, l) == CHOOSE k \in 1..Len(labels) : labels[k] = l /\ \A j \in 1..(k - 1) : labels[j] # l

\* `out` is `labels` without the labels in `dropped`, each label kept once,
\* at the place of its first occurrence
IsDedupedLabels(out, labels, dropped) ==
    /\ \A a, b \in 1..Len(out) : a # b => out[a] # out[b]
    /\ Range(out) = Range(labels) \ dropped
    /\ \A a, b \in 1..Len(out) : a < b => FirstIndex(labels, out[a]) < FirstIndex(labels, out[b])

-----------------------------------------------------------------------------
(* The embedding providers and the vector store *)

\* the vector lengths a provider may return
Lengths == {0, 1, MaxDim}

\* What client.embeddings.create may answer to a batch of n texts: up to n
\* items in any order, each with an index below n and a vector of any
\* length; the vector of the p-th item of the answer is filled with p
Responses(n) ==
    UNION {{[p \in 1..m |-> [index     |-> f[p][1],
                             embedding |-> [j \in 1..f[p][2] |-> p]]] :
                f \in [1..m -> (0..(n - 1)) \X Lengths]} : m \in 0..n}

\* mutant of PlaceByIndex: the vectors are taken in the order of the answer
PlaceByPosition(response) ==
    [ok    |-> TRUE,
     batch |-> [s \in 1..Len(response) |-> List(response[s].embedding)]]

\* batch_embeddings = [None] * len(response.data), then
\* batch_embeddings[item.index] = item.embedding for each item in turn
PlaceByIndex(response) ==
    LET n == Len(response)
        at(s) == {p \in 1..n : response[p].index = s - 1}
    IN  IF \E p \in 1..n : response[p].index >= n
        THEN [ok |-> FALSE, batch |-> <<>>]
        ELSE [ok    |-> TRUE,
              batch |-> [s \in 1..n |->
                            IF at(s) = {} THEN None
                            ELSE List(response[CHOOSE p \in at(s) : \A q \in at(s) : q <= p].embedding)]]

\* mutant of AssignEmbeddings: a document that fails the validation is
\* passed over instead of ending the loop
AssignEmbeddingsLenient(docs, stages, embs, dim) ==
    LET n == Min(Len(docs), Len(embs))
    IN  [docs   |-> [k \in 1..Len(docs) |->
                        IF k <= n THEN [docs[k] EXCEPT !.embedding = embs[k]] ELSE docs[k]],
         stages |-> [k \in 1..Len(docs) |-> IF k <= n THEN "post-embedding" ELSE stages[k]],
         error  |-> ""]

\* for doc, emb in zip(docs, embeddings): doc["embedding"] = emb;
\* validate_output(doc, embedding_dim=dim) -- stops at the first ValueError
AssignEmbeddings(docs, stages, embs, dim) ==
    LET n == Min(Len(docs), Len(embs))
        withEmb(k) == [docs[k] EXCEPT !.embedding = embs[k]]
        bad == {k \in 1..n : validate_output(withEmb(k), dim) # "ok"}
        first == IF bad = {} THEN n + 1 ELSE CHOOSE k \in bad : \A j \in bad : k <= j
    IN  [docs   |-> [k \in 1..Len(docs) |-> IF k <= n /\ k <= first THEN withEmb(k) ELSE docs[k]],
         stages |-> [k \in 1..Len(docs) |-> IF k <= n /\ k < first THEN "post-embedding" ELSE stages[k]],
         error  |-> IF bad = {} THEN "" ELSE validate_output(withEmb(first), dim)]

\* payload={**doc["metadata"], "text": doc["text"]}
Payload(doc) ==
    [k \in DOMAIN doc.metadata \cup {"text"} |->
        IF k = "text" THEN doc.text ELSE doc.metadata[k]]

\* models.PointStruct(id=idx, vector=doc["embedding"], payload=...) per document
Points(docs) ==
    {[id |-> k - 1, vector |-> docs[k].embedding, payload |-> Payload(docs[k])] :
        k \in 1..Len(docs)}

\* mutant of recreate_collection: the points of the collection are kept
recreate_keep(coll, vector_size) ==
    [exists |-> TRUE, size |-> vector_size, points |-> coll.points]

\* client.recreate_collection: the collection is dropped and created empty
recreate_collection(coll, vector_size) ==
    [exists |-> TRUE, size |-> vector_size, points |-> {}]

\* client.upsert: a point replaces the point of the same id
upsert(coll, points) ==
    [coll EXCEPT !.points = {q \in coll.points : \A pt \in points : pt.id # q.id} \cup points]

\* a collection left by an earlier, larger run
StaleCollection ==
    [exists |-> TRUE, size |-> MaxDim + 1,
     points |-> {[id |-> n, vector |-> List([j \in 1..(MaxDim + 1) |-> 0]),
                  payload |-> Payload(transform_document(DocGood))] : n \in 0..MaxDocs}]

-----------------------------------------------------------------------------
(* run_pipeline *)

Init ==
    /\ raw \in SeqsUpTo(RawDocs, MaxDocs)
    /\ limit \in {0, 1}
    /\ skip_embeddings \in BOOLEAN
    /\ provider \in {"openai", "sentence-transformers"}
    /\ batch_size = 0
    /\ env \in [OPENAI_API_KEY : BOOLEAN, QDRANT_URL : BOOLEAN, QDRANT_API_KEY : BOOLEAN]
    /\ prior \in {NoCollection, StaleCollection}
    /\ collection = prior
    /\ pc = "read" /\ idx = 0 /\ transformed = <<>> /\ validated = <<>>
    /\ embeddings = <<>> /\ responses = <<>> /\ embedding_dim = NoDim
    /\ error = "" /\ output = NoOutput
    /\ call = [fn |-> "run_pipeline"] /\ result = <<>>

\* raw = json.loads(...); if limit: raw = raw[:limit]
ReadInput ==
    /\ pc = "read"
    /\ raw' = IF limit # 0 THEN Slice(raw, 0, limit) ELSE raw
    /\ pc' = "transform"
    /\ UNCHANGED <<limit, skip_embeddings, provider, batch_size, env, idx, transformed,
                   validated, embeddings, responses, embedding_dim, error, output,
                   collection, prior, fvars>>

\* mutant of KeepValid: the document is appended before it is validated
KeepAll(docs, doc) == Append(docs, transform_document(doc))

\* one pass of the try body: the document is appended when validate_output
\* returns and skipped when it raises
KeepValid(docs, doc) ==
    LET transformed_doc == transform_document(doc)
    IN  IF validate_output(transformed_doc, NoDim) = "ok"
        THEN Append(docs, transformed_doc)
        ELSE docs

TransformStep ==
    /\ pc = "transform" /\ idx < Len(raw)
    /\ transformed' = KeepValid(transformed, raw[idx + 1])
    /\ validated' = [k \in 1..Len(transformed') |-> "post-transform"]
    /\ idx' = idx + 1
    /\ UNCHANGED <<raw, limit, skip_embeddings, provider, batch_size, env, pc, embeddings,
                   responses, embedding_dim, error, output, collection, prior, fvars>>

SkipEmbeddings ==
    /\ pc = "transform" /\ idx = Len(raw) /\ skip_embeddings
    /\ pc' = "write"
    /\ UNCHANGED <<raw, limit, skip_embeddings, provider, batch_size, env, idx, transformed,
                   validated, embeddings, responses, embedding_dim, error, output,
                   collection, prior, fvars>>

\* add_embeddings_openai is entered: the credential is read
OpenAIStart ==
    /\ pc = "transform" /\ idx = Len(raw) /\ ~skip_embeddings /\ provider = "openai"
    /\ IF ~env.OPENAI_API_KEY
       THEN pc' = "failed" /\ error' = "OPENAI_API_KEY not set" /\ UNCHANGED batch_size
       ELSE pc' = "openai" /\ UNCHANGED error /\ batch_size' \in 1..MaxBatch
    /\ UNCHANGED <<raw, limit, skip_embeddings, provider, env, idx, transformed, validated,
                   embeddings, responses, embedding_dim, output, collection, prior, fvars>>

\* one pass of the batch loop: a request and the placement of its answer
OpenAIBatch ==
    /\ pc = "openai" /\ Len(responses) * batch_size < Len(transformed)
    /\ LET start == Len(responses) * batch_size
           batch == Slice(transformed, start, start + batch_size)
       IN  \E response \in Responses(Len(batch)) :
               /\ responses' = Append(responses, response)
               /\ IF PlaceByIndex(response).ok
                  THEN /\ embeddings' = embeddings \o PlaceByIndex(response).batch
                       /\ UNCHANGED <<pc, error>>
                  ELSE /\ pc' = "failed" /\ error' = "IndexError"
                       /\ UNCHANGED embeddings
    /\ UNCHANGED <<raw, limit, skip_embeddings, provider, batch_size, env, idx, transformed,
                   validated, embedding_dim, output, collection, prior, fvars>>

\* after the batch loop: the emptiness check, dim, and the zip loop
OpenAIAssign ==
    /\ pc = "openai" /\ Len(responses) * batch_size >= Len(transformed)
    /\ IF embeddings = <<>>
       THEN /\ pc' = "failed" /\ error' = "No embeddings returned from OpenAI"
            /\ UNCHANGED <<transformed, validated, embedding_dim>>
       ELSE IF embeddings[1] = None
       THEN /\ pc' = "failed" /\ error' = "TypeError"
            /\ UNCHANGED <<transformed, validated, embedding_dim>>
       ELSE LET dim == Len(embeddings[1].v)
                done == AssignEmbeddings(transformed, validated, embeddings, dim)
            IN  /\ transformed' = done.docs
                /\ validated' = done.stages
                /\ IF done.error = ""
                   THEN pc' = "write" /\ embedding_dim' = dim /\ UNCHANGED error
                   ELSE pc' = "failed" /\ error' = done.error /\ UNCHANGED embedding_dim
    /\ UNCHANGED <<raw, limit, skip_embeddings, provider, batch_size, env, idx, embeddings,
                   responses, output, collection, prior, fvars>>

\* add_embeddings_sentence_transformers: the model declares dim and encodes
\* all texts in one call to an array of one row of len values per text
LocalEmbed ==
    /\ pc = "transform" /\ idx = Len(raw) /\ ~skip_embeddings /\ provider # "openai"
    /\ \E dim \in Lengths \ {0}, len \in Lengths \ {0} :
          LET encoded == [k \in 1..Len(transformed) |-> List([j \in 1..len |-> k])]
              done == AssignEmbeddings(transformed, validated, encoded, dim)
          IN  /\ embeddings' = encoded
              /\ transformed' = done.docs
              /\ validated' = done.stages
              /\ IF done.error = ""
                 THEN pc' = "write" /\ embedding_dim' = dim /\ UNCHANGED error
                 ELSE pc' = "failed" /\ error' = done.error /\ UNCHANGED embedding_dim
    /\ UNCHANGED <<raw, limit, skip_embeddings, provider, batch_size, env, idx, responses,
                   output, collection, prior, fvars>>

\* output_path.write_text(json.dumps(transformed, ...)); if embedding_dim: ...
WriteOutput ==
    /\ pc = "write"
    /\ output' = [written |-> TRUE, docs |-> transformed]
    /\ pc' = IF embedding_dim # NoDim /\ embedding_dim # 0 THEN "push" ELSE "done"
    /\ UNCHANGED <<raw, limit, skip_embeddings, provider, batch_size, env, idx, transformed,
                   validated, embeddings, responses, embedding_dim, error, collection,
                   prior, fvars>>

\* mutant of push_to_qdrant: the configuration is not looked at
push_unconditional(coll, docs, vector_size, url, api_key) ==
    IF \E k \in 1..Len(docs) : docs[k].embedding = Absent
    THEN [collection |-> recreate_collection(coll, vector_size), error |-> "KeyError"]
    ELSE [collection |-> upsert(recreate_collection(coll, vector_size), Points(docs)),
          error |-> ""]

\* what push_to_qdrant leaves of the collection, and how it ends
push_to_qdrant(coll, docs, vector_size, url, api_key) ==
    IF ~url \/ ~api_key
    THEN [collection |-> coll, error |-> ""]
    ELSE IF \E k \in 1..Len(docs) : docs[k].embedding = Absent
    THEN [collection |-> recreate_collection(coll, vector_size), error |-> "KeyError"]
    ELSE IF \E k \in 1..Len(docs) :
                docs[k].embedding.t # "list" \/ Len(docs[k].embedding.v) # vector_size
    THEN [collection |-> recreate_collection(coll, vector_size), error |-> "upsert rejected"]
    ELSE [collection |-> upsert(recreate_collection(coll, vector_size), Points(docs)),
          error |-> ""]

PushToQdrant ==
    /\ pc = "push"
    /\ LET pushed == push_to_qdrant(collection, transformed, embedding_dim,
                                    env.QDRANT_URL, env.QDRANT_API_KEY)
       IN  /\ collection' = pushed.collection
           /\ error' = pushed.error
           /\ pc' = IF pushed.error = "" THEN "done" ELSE "failed"
    /\ UNCHANGED <<raw, limit, skip_embeddings, provider, batch_size, env, idx, transformed,
                   validated, embeddings, responses, embedding_dim, output, prior, fvars>>

Next ==
    \/ ReadInput
    \/ TransformStep
    \/ SkipEmbeddings
    \/ OpenAIStart
    \/ OpenAIBatch
    \/ OpenAIAssign
    \/ LocalEmbed
    \/ WriteOutput
    \/ PushToQdrant

Spec == Init /\ [][Next]_vars

-----------------------------------------------------------------------------
(* Properties of run_pipeline *)

HasDim == embedding_dim # NoDim /\ embedding_dim # 0

\* the run has left the embedding step behind without an exception
Embedded == pc \in {"write", "push", "done"} \/ (pc = "failed" /\ output.written)

\* the exceptions add_embeddings_openai and
\* add_embeddings_sentence_transformers can end with
FatalEmbeddingErrors ==
    {"OPENAI_API_KEY not set", "IndexError", "TypeError",
     "No embeddings returned from OpenAI", "Embedding dimension mismatch"}

\* the messages of the ValueError validate_output raises
ValidationMessages ==
    {"Invalid text field", "Missing required metadata.external_id",
     "Missing required metadata.url", "timestamp must be string",
     "timestamp must end with Z", "timestamp must match ISO 8601",
     "Embedding dimension mismatch"}

\* a document without its embedding
Core(doc) == [text |-> doc.text, metadata |-> doc.metadata]
Cores(docs) == [k \in 1..Len(docs) |-> Core(docs[k])]

\* the b-th batch (from 1) of the remote variant has this many texts
BatchLen(b) == Min(batch_size, Len(transformed) - (b - 1) * batch_size)

\* the answer holds one item for each index of the batch
WellFormed(response, n) ==
    /\ Len(response) = n
    /\ {response[p].index : p \in 1..Len(response)} = 0..(n - 1)

\* the vector the answer to batch floor(k / batch_size) labelled k mod batch_size
Labelled(k) ==
    LET response == responses[(k \div batch_size) + 1]
    IN  response[CHOOSE p \in 1..Len(response) : response[p].index = k % batch_size].embedding

\* C1: in the remote variant, whatever the order of the items of each
\* answer, the document at position k receives the vector that the answer to
\* batch floor(k / batch_size) labelled with index k mod batch_size.
EmbeddingFollowsIndex ==
    (/\ provider = "openai" /\ ~skip_embeddings
     /\ \A b \in 1..Len(responses) : WellFormed(responses[b], BatchLen(b)))
    => /\ \A k \in 0..(Len(embeddings) - 1) : embeddings[k + 1] = List(Labelled(k))
       /\ \A k \in 0..(Len(transformed) - 1) :
             transformed[k + 1].embedding # Absent
                => transformed[k + 1].embedding = List(Labelled(k))

\* C1 witness: a two-document batch answered with indices [1, 0] and
\* different vectors, and both documents embedded
EmbeddingFollowsIndexWitness ==
    /\ provider = "openai" /\ pc = "write" /\ batch_size = 2
    /\ Len(transformed) = 2 /\ Len(responses) = 1
    /\ WellFormed(responses[1], 2)
    /\ responses[1][1].index = 1 /\ responses[1][2].index = 0
    /\ responses[1][1].embedding # responses[1][2].embedding
    /\ transformed[1].embedding = List(responses[1][2].embedding)
    /\ transformed[2].embedding = List(responses[1][1].embedding)

\* the validation rules, on a transformed record
TimestampOk(val) ==
    val = Absent \/ (val.t = "str" /\ val.v # <<>> /\ val.v[Len(val.v)] = "Z"
                     /\ IsoParses(ReplaceZ(val.v)))

PassesValidation(rec) ==
    /\ rec.text.t = "str" /\ ~IsBlank(rec.text.v)
    /\ rec.metadata.external_id.t = "str" /\ rec.metadata.external_id.v # <<>>
    /\ rec.metadata.url.t = "str" /\ rec.metadata.url.v # <<>>
    /\ TimestampOk(rec.metadata.publish_date)
    /\ TimestampOk(rec.metadata.datetime)
    /\ TimestampOk(rec.metadata.first_publish_date)

\* the record of each raw document, and the documents whose record passes
RecordOf == [d \in RawDocs |-> Core(transform_document(d))]
Passing == {d \in RawDocs : PassesValidation(RecordOf[d])}

\* the records of the first n raw documents that pass validation, in order
Survivors(n) ==
    LET kept == SelectSeq(SubSeq(raw, 1, n), LAMBDA d : d \in Passing)
    IN  [k \in 1..Len(kept) |-> RecordOf[kept[k]]]

\* C2: the documents carried forward, and written, are exactly the raw
\* documents whose record passes validation, in input order.
SurvivorsInOrder ==
    /\ pc # "read" => Cores(transformed) = Survivors(idx)
    /\ output.written => Cores(output.docs) = Survivors(Len(raw))

\* C2 witness: a document without _id followed by a complete one, embedding
\* skipped: the output holds the complete one only
SurvivorsInOrderWitness ==
    /\ pc = "done" /\ skip_embeddings /\ output.written
    /\ raw = <<DocNoId, DocGood>>
    /\ Cores(output.docs) = <<Core(transform_document(DocGood))>>

\* C3: once the output is written in a run that embeds, every document
\* carries an embedding, all of the length that is passed to the sink and
\* that the collection is created with.
EmbeddingsUniform ==
    (~skip_embeddings /\ output.written)
    => /\ \A k \in 1..Len(output.docs) :
             /\ output.docs[k].embedding.t = "list"
             /\ Len(output.docs[k].embedding.v) = embedding_dim
       /\ collection # prior => collection.size = embedding_dim

\* the validation a surviving document has to have passed before the write
LastValidation == IF skip_embeddings THEN "post-transform" ELSE "post-embedding"

\* C4: the output is written only after every surviving document passed
\* its last validation, and a fatal embedding error leaves no output and an
\* untouched vector store.
WriteAfterLastValidation ==
    /\ output.written => \A k \in 1..Len(validated) : validated[k] = LastValidation
    /\ (pc = "failed" /\ error \in FatalEmbeddingErrors)
          => (~output.written /\ collection = prior)

\* C5 as stated: no ValidationError, an embedding-dimension mismatch
\* included, ever ends the run.
ValidationErrorsNeverFatal ==
    ~(pc = "failed" /\ error \in ValidationMessages)

\* C5 amended: a ValidationError of the post-transform validation drops its
\* document and the run goes on with the others; a ValidationError of the
\* post-embedding validation (dimension mismatch) ends the run before
\* anything is written, so no mismatching embedding gets past the step.
ValidationErrorsByStage ==
    /\ pc = "failed" => idx = Len(raw)
    /\ (pc # "read" /\ idx = Len(raw)) => Cores(transformed) = Survivors(Len(raw))
    /\ error \in ValidationMessages
          => (pc = "failed" /\ ~output.written /\ collection = prior)
    /\ (Embedded /\ HasDim)
          => \A k \in 1..Len(transformed) :
                transformed[k].embedding # Absent
                   => /\ transformed[k].embedding.t = "list"
                      /\ Len(transformed[k].embedding.v) = embedding_dim

\* C5 witness: one document was dropped by the post-transform validation,
\* and a later dimension mismatch ended the run
ValidationErrorsByStageWitness ==
    /\ pc = "failed" /\ error = "Embedding dimension mismatch"
    /\ Len(transformed) < Len(raw) /\ Len(transformed) > 0
    /\ ~output.written

Configured == env.QDRANT_URL /\ env.QDRANT_API_KEY

\* the points push_to_qdrant is to leave: one per document, ids 0..n-1,
\* point i with document i's embedding, metadata and text
HoldsExactlyTheDocuments ==
    /\ collection.exists /\ collection.size = embedding_dim
    /\ Cardinality(collection.points) = Len(transformed)
    /\ \A k \in 1..Len(transformed) :
          \E pt \in collection.points :
             /\ pt.id = k - 1
             /\ pt.vector = transformed[k].embedding
             /\ pt.payload.text = transformed[k].text
             /\ \A key \in DOMAIN transformed[k].metadata :
                   pt.payload[key] = transformed[k].metadata[key]

\* push_to_qdrant was called and has ended, by returning or by raising
PushEnded == output.written /\ HasDim /\ pc \in {"done", "failed"}

\* C6: with endpoint and credential configured, push_to_qdrant leaves, for
\* any prior contents and any document list, exactly one point per document,
\* ids 0..n-1, point i with document i's embedding, metadata and text.
PushReplacesCollection ==
    (PushEnded /\ Configured) => HoldsExactlyTheDocuments

\* C6, the part that holds: the same whenever push_to_qdrant returns
PushReplacesCollectionOnReturn ==
    (pc = "done" /\ HasDim /\ Configured) => HoldsExactlyTheDocuments

\* a collection of an earlier, larger run replaced by one point
PushReplacesCollectionWitness ==
    /\ pc = "done" /\ HasDim /\ Configured
    /\ prior = StaleCollection
    /\ Len(transformed) = 1
    /\ Cardinality(collection.points) = 1

\* C7 as stated: with skip-embeddings, or without endpoint or credential,
\* the collection is unchanged, the run is not an error, and it writes the
\* output, without embeddings under skip-embeddings.
StoreUntouchedRunSucceeds ==
    (skip_embeddings \/ ~Configured)
    => /\ collection = prior
       /\ pc # "failed"
       /\ pc = "done" => output.written
       /\ (pc = "done" /\ skip_embeddings)
             => \A k \in 1..Len(output.docs) : output.docs[k].embedding = Absent

\* C7 amended: in these cases the collection is unchanged and the missing
\* store configuration is no error: the run fails only by a fatal error of
\* the embedding step (never under skip-embeddings), and otherwise ends with
\* the output written, without embeddings under skip-embeddings.
StoreUntouchedUnlessEmbeddingFails ==
    (skip_embeddings \/ ~Configured)
    => /\ collection = prior
       /\ pc = "failed" => (~skip_embeddings /\ error \in FatalEmbeddingErrors
                            /\ ~output.written)
       /\ pc = "done" => output.written
       /\ (pc = "done" /\ skip_embeddings)
             => \A k \in 1..Len(output.docs) : output.docs[k].embedding = Absent

\* C7 witness: an embedded run without endpoint, over a collection of an
\* earlier run, ended with the output written
StoreUntouchedWitness ==
    /\ pc = "done" /\ ~skip_embeddings /\ HasDim /\ ~env.QDRANT_URL
    /\ prior = StaleCollection /\ collection = prior
    /\ output.written /\ Len(output.docs) > 0

=============================================================================
